---- MODULE Spec2Model ----
(***************************************************************************)
(* Model of search_tool.py: the __main__ pipeline                          *)
(*   df = read_csv(...); data = clean(df);                                 *)
(*   batch_insert_to_chromadb(collection_name, data, batch_size)           *)
(* A DataFrame is a sequence of rows; a row is a function from the column  *)
(* names of the frame to strings.  One run of the script is one behaviour. *)
(***************************************************************************)
EXTENDS Integers, Sequences, FiniteSets, TLC

VARIABLES
    pc,          \* position of the script: main, open, total, loop, done, failed
    columns,     \* the columns of the CSV header (the frame's schema)
    df,          \* the frame read from the CSV file
    batch_size,  \* int(input("Enter the batch size: "))
    data,        \* the frame clean() returned
    opened,      \* number of get_or_create_collection calls made
    total,       \* total_batches, the total= of the progress bar
    pbar,        \* the progress bar's counter n
    it,          \* create_batches' range iterator: the start offsets still to come
    yielded,     \* the batches create_batches has yielded so far
    calls,       \* the collection.add calls made, in order, with their outcome
    collection,  \* what the add calls of this run have stored
    err          \* the exception that left the script, or NoError

vars == <<pc, columns, df, batch_size, data, opened, total, pbar, it, yielded,
          calls, collection, err>>

-----------------------------------------------------------------------------
(* Bounds of the model *)
MaxLen == 3
MaxBatch == 3

Ids == {"1", "2", "3"}
Titles == {"a_ar", "b_fa"}
Categories == {"c_ar", "d_fa"}
SubCategories == {"s"}

AllColumns == {"id", "title_fa", "Category1", "sub_category"}

(* The headers tried: the full header, and each header with one column gone *)
Schemas == {AllColumns} \cup {AllColumns \ {c} : c \in AllColumns}

BatchSizes == (0 - 1) .. MaxBatch

ColVals(c) ==
    CASE c = "id" -> Ids
      [] c = "title_fa" -> Titles
      [] c = "Category1" -> Categories
      [] c = "sub_category" -> SubCategories

Rows(cols) ==
    {r \in [cols -> Ids \cup Titles \cup Categories \cup SubCategories] :
        \A c \in cols : r[c] \in ColVals(c)}

Frames(cols) == UNION {[1 .. m -> Rows(cols)] : m \in 0 .. MaxLen}

(* An exception: its class, the function that raised it, and the batch      *)
(* indices it names (no line of the script attaches one)                  *)
NoError == [type |-> "none", at |-> "none", batches |-> {}]

-----------------------------------------------------------------------------
(* Normalizer.normalize: character unification; "_ar" forms are rewritten  *)
(* to their "_fa" form, text already in canonical form is left alone.      *)
normalize(t) ==
    CASE t = "a_ar" -> "a_fa"
      [] t = "c_ar" -> "c_fa"
      [] OTHER -> t

Min(a, b) == IF a < b THEN a ELSE b

(* Python's floor division a // b, b # 0 *)
PyFloorDiv(a, b) == IF b > 0 THEN a \div b ELSE (0 - a) \div (0 - b)

(* Variant keep="last": the mask of the rows whose id comes again later *)
duplicated_keep_last(frame) ==
    [i \in 1 .. Len(frame) |->
        \E j \in (i + 1) .. Len(frame) : frame[j]["id"] = frame[i]["id"]]

(* DataFrame.duplicated(subset="id", keep="first"): the mask of the rows   *)
(* whose id was seen in an earlier row                                    *)
duplicated(frame) ==
    [i \in 1 .. Len(frame) |->
        \E j \in 1 .. (i - 1) : frame[j]["id"] = frame[i]["id"]]

(* frame[mask]: the rows whose mask entry is TRUE, in order *)
RECURSIVE SelectRows(_, _)
SelectRows(frame, mask) ==
    IF Len(frame) = 0 THEN <<>>
    ELSE LET rest == SelectRows(Tail(frame), Tail(mask))
         IN  IF Head(mask) THEN <<Head(frame)>> \o rest ELSE rest

(* DataFrame.drop_duplicates(subset="id").reset_index(drop=True): an empty *)
(* frame is returned as a copy before the subset is looked at              *)
drop_duplicates(frame) ==
    IF Len(frame) = 0 THEN frame
    ELSE SelectRows(frame, [i \in 1 .. Len(frame) |-> ~duplicated(frame)[i]])

drop_duplicates_raises(frame, cols) == Len(frame) # 0 /\ "id" \notin cols

(* dataframe[col] = dataframe[col].apply(normalizer.normalize) *)
apply_normalize(frame, col) ==
    [i \in 1 .. Len(frame) |-> [frame[i] EXCEPT ![col] = normalize(@)]]

(* clean(dataframe), lines 83-87 *)
clean_raises(frame, cols) ==
    \/ drop_duplicates_raises(frame, cols)
    \/ "title_fa" \notin cols
    \/ "Category1" \notin cols

clean(frame) ==
    apply_normalize(apply_normalize(drop_duplicates(frame), "title_fa"), "Category1")

(* range(start, stop, step), step # 0, as the sequence it iterates *)
RECURSIVE range(_, _, _)
range(start, stop, step) ==
    IF (step > 0 /\ start < stop) \/ (step < 0 /\ start > stop)
    THEN <<start>> \o range(start + step, stop, step)
    ELSE <<>>

(* Variant: offsets counted from 1 *)
batch_starts_from_one(n, b) == range(1, n, b)

(* line 36: the start offsets create_batches iterates over *)
batch_starts(n, b) == range(0, n, b)

(* Variant: a slice with an inclusive upper end taken one short *)
iloc_short(frame, lo, hi) ==
    SubSeq(frame, Min(lo, Len(frame)) + 1, Min(hi - 1, Len(frame)))

(* frame.iloc[lo:hi] for 0 <= lo: the slice is clipped to the frame *)
iloc(frame, lo, hi) ==
    SubSeq(frame, Min(lo, Len(frame)) + 1, Min(hi, Len(frame)))

(* Variant: len(data) // batch_size, without the rounding up *)
total_batches_floor(n, b) == PyFloorDiv(n, b)

(* total_batches of line 64 *)
total_batches(n, b) == PyFloorDiv(n + b - 1, b)

(* Variant: the documents taken in reverse row order *)
projection_rev(batch) ==
    [documents |-> [i \in 1 .. Len(batch) |-> batch[Len(batch) + 1 - i]["title_fa"]],
     ids       |-> [i \in 1 .. Len(batch) |-> batch[i]["id"]],
     metadatas |-> [i \in 1 .. Len(batch) |->
                      [Category1    |-> batch[i]["Category1"],
                       sub_category |-> batch[i]["sub_category"]]]]

(* insert_batch_into_chromadb, lines 47-49: the arguments of collection.add *)
projection(batch) ==
    [documents |-> [i \in 1 .. Len(batch) |-> batch[i]["title_fa"]],
     ids       |-> [i \in 1 .. Len(batch) |-> batch[i]["id"]],
     metadatas |-> [i \in 1 .. Len(batch) |->
                      [Category1    |-> batch[i]["Category1"],
                       sub_category |-> batch[i]["sub_category"]]]]

(* What collection.add stores for one call *)
stored(args) ==
    [i \in 1 .. Len(args.ids) |->
        [id |-> args.ids[i], document |-> args.documents[i],
         metadata |-> args.metadatas[i]]]

-----------------------------------------------------------------------------
Init ==
    /\ pc = "main"
    /\ columns \in Schemas
    /\ df \in Frames(columns)
    /\ batch_size \in BatchSizes
    /\ data = <<>>
    /\ opened = 0
    /\ total = 0
    /\ pbar = 0
    /\ it = <<>>
    /\ yielded = <<>>
    /\ calls = <<>>
    /\ collection = <<>>
    /\ err = NoError

Raise(type, at) ==
    /\ pc' = "failed"
    /\ err' = [type |-> type, at |-> at, batches |-> {}]

(* line 98: data = clean(df), returning normally *)
Clean ==
    /\ pc = "main"
    /\ ~clean_raises(df, columns)
    /\ data' = clean(df)
    /\ pc' = "open"
    /\ UNCHANGED <<columns, df, batch_size, opened, total, pbar, it, yielded,
                   calls, collection, err>>

(* line 98: clean(df) raising the KeyError of a missing column *)
CleanKeyError ==
    /\ pc = "main"
    /\ clean_raises(df, columns)
    /\ Raise("KeyError", "clean")
    /\ UNCHANGED <<columns, df, batch_size, data, opened, total, pbar, it,
                   yielded, calls, collection>>

(* line 63: collection = initialize_chromadb(collection_name) *)
InitializeChromadb ==
    /\ pc = "open"
    /\ opened' = opened + 1
    /\ pc' = "total"
    /\ UNCHANGED <<columns, df, batch_size, data, total, pbar, it, yielded,
                   calls, collection, err>>

(* lines 64-67: total_batches, the progress bar at 0, the generator created *)
ComputeTotal ==
    /\ pc = "total"
    /\ batch_size # 0
    /\ total' = total_batches(Len(data), batch_size)
    /\ pbar' = 0
    /\ it' = batch_starts(Len(data), batch_size)
    /\ pc' = "loop"
    /\ UNCHANGED <<columns, df, batch_size, data, opened, yielded, calls,
                   collection, err>>

(* line 64 with batch_size = 0: the division raises *)
ComputeTotalZeroDivision ==
    /\ pc = "total"
    /\ batch_size = 0
    /\ Raise("ZeroDivisionError", "total_batches")
    /\ UNCHANGED <<columns, df, batch_size, data, opened, total, pbar, it,
                   yielded, calls, collection>>

(* lines 67-69, one iteration whose collection.add returns *)
InsertBatch ==
    /\ pc = "loop"
    /\ it # <<>>
    /\ "sub_category" \in columns
    /\ LET batch == iloc(data, Head(it), Head(it) + batch_size)
           args  == projection(batch)
       IN  /\ yielded' = Append(yielded, batch)
           /\ calls' = Append(calls, [args |-> args, ok |-> TRUE])
           /\ collection' = collection \o stored(args)
    /\ it' = Tail(it)
    /\ pbar' = pbar + 1
    /\ UNCHANGED <<pc, columns, df, batch_size, data, opened, total, err>>

(* Variant: the exception of collection.add is caught and the loop goes on *)
InsertBatchAddRaisesSwallowed ==
    /\ pc = "loop"
    /\ it # <<>>
    /\ "sub_category" \in columns
    /\ LET batch == iloc(data, Head(it), Head(it) + batch_size)
           args  == projection(batch)
       IN  /\ yielded' = Append(yielded, batch)
           /\ calls' = Append(calls, [args |-> args, ok |-> FALSE])
    /\ it' = Tail(it)
    /\ UNCHANGED <<pc, columns, df, batch_size, data, opened, total, pbar,
                   collection, err>>

(* lines 67-68, one iteration whose collection.add raises: nothing catches *)
(* the exception, it leaves batch_insert_to_chromadb as the store raised it *)
InsertBatchAddRaises ==
    /\ pc = "loop"
    /\ it # <<>>
    /\ "sub_category" \in columns
    /\ LET batch == iloc(data, Head(it), Head(it) + batch_size)
           args  == projection(batch)
       IN  /\ yielded' = Append(yielded, batch)
           /\ calls' = Append(calls, [args |-> args, ok |-> FALSE])
    /\ it' = Tail(it)
    /\ Raise("StoreError", "add")
    /\ UNCHANGED <<columns, df, batch_size, data, opened, total, pbar,
                   collection>>

(* line 49 on a frame without sub_category: the column selection raises *)
(* before collection.add is called                                       *)
InsertBatchKeyError ==
    /\ pc = "loop"
    /\ it # <<>>
    /\ "sub_category" \notin columns
    /\ yielded' = Append(yielded, iloc(data, Head(it), Head(it) + batch_size))
    /\ it' = Tail(it)
    /\ Raise("KeyError", "insert_batch_into_chromadb")
    /\ UNCHANGED <<columns, df, batch_size, data, opened, total, pbar, calls,
                   collection>>

(* line 67: the generator is exhausted, the script ends *)
Finish ==
    /\ pc = "loop"
    /\ it = <<>>
    /\ pc' = "done"
    /\ UNCHANGED <<columns, df, batch_size, data, opened, total, pbar, it,
                   yielded, calls, collection, err>>

Next ==
    \/ Clean
    \/ CleanKeyError
    \/ InitializeChromadb
    \/ ComputeTotal
    \/ ComputeTotalZeroDivision
    \/ InsertBatch
    \/ InsertBatchAddRaises
    \/ InsertBatchKeyError
    \/ Finish

Spec == Init /\ [][Next]_vars

-----------------------------------------------------------------------------
(* Helpers of the properties *)

RECURSIVE Flatten(_)
Flatten(ss) == IF ss = <<>> THEN <<>> ELSE Head(ss) \o Flatten(Tail(ss))

(* clean() has returned normally *)
Cleaned == pc \in {"open", "total", "loop", "done"} \/ (pc = "failed" /\ err.at # "clean")

(* The loop of batch_insert_to_chromadb has been entered *)
InLoop ==
    \/ pc \in {"loop", "done"}
    \/ (pc = "failed" /\ err.at \in {"add", "insert_batch_into_chromadb"})

(* n is ceil(len / b), for b >= 1 *)
IsCeil(n, len, b) == n * b >= len /\ (n - 1) * b < len

(* The index in df of the first row that carries the id *)
FirstIndex(id) ==
    CHOOSE i \in 1 .. Len(df) :
        df[i]["id"] = id /\ \A j \in 1 .. (i - 1) : df[j]["id"] # id

RequiredMissing == \E c \in {"id", "title_fa", "Category1"} : c \notin columns

OkCalls == {j \in 1 .. Len(calls) : calls[j].ok}

-----------------------------------------------------------------------------
(* C1: once clean(df) has returned, the ids of data are pairwise distinct,  *)
(* every id of df is in data, each row of data is the first row of df with  *)
(* that id (its title_fa and Category1 normalized), and the rows of data    *)
(* are in the order of those first rows in df.                              *)
C1_DedupFirstWins ==
    (Cleaned /\ "id" \in columns) =>
        /\ \A p, q \in 1 .. Len(data) : p # q => data[p]["id"] # data[q]["id"]
        /\ \A i \in 1 .. Len(df) : \E p \in 1 .. Len(data) : data[p]["id"] = df[i]["id"]
        /\ \A p \in 1 .. Len(data) :
              /\ \E i \in 1 .. Len(df) : df[i]["id"] = data[p]["id"]
              /\ LET first == df[FirstIndex(data[p]["id"])]
                 IN  data[p] = [first EXCEPT !["title_fa"] = normalize(@),
                                             !["Category1"] = normalize(@)]
        /\ \A p, q \in 1 .. Len(data) :
              p < q => FirstIndex(data[p]["id"]) < FirstIndex(data[q]["id"])

(* A frame of three rows whose first and third row share an id and differ   *)
(* in title has been cleaned to two rows.                                   *)
C1_Witness ==
    /\ Cleaned
    /\ columns = AllColumns
    /\ Len(df) = 3
    /\ df[1]["id"] = df[3]["id"]
    /\ df[1]["id"] # df[2]["id"]
    /\ df[1]["title_fa"] = "a_ar"
    /\ df[3]["title_fa"] = "b_fa"
    /\ Len(data) = 2

(* C2: for batch_size b >= 1 the j-th batch create_batches yields is the    *)
(* rows [(j-1)*b, min(j*b, n)) of data; the batches yielded and still to    *)
(* come number ceil(n/b); when the generator is exhausted the batches       *)
(* concatenate to data, all but the last have b rows, an empty frame gave   *)
(* no batch and b >= n > 0 gave one.                                        *)
C2_Partition ==
    (batch_size >= 1 /\ InLoop) =>
        LET n == Len(data)
            b == batch_size
            m == Len(yielded)
        IN  /\ \A j \in 1 .. m :
                  /\ Len(yielded[j]) = Min(j * b, n) - (j - 1) * b
                  /\ \A i \in 1 .. Len(yielded[j]) :
                        yielded[j][i] = data[(j - 1) * b + i]
            /\ IsCeil(m + Len(it), n, b)
            /\ it = <<>> =>
                  /\ Flatten(yielded) = data
                  /\ \A j \in 1 .. (m - 1) : Len(yielded[j]) = b
                  /\ n = 0 => m = 0
                  /\ (b >= n /\ n > 0) => m = 1

(* Three rows in batches of two: a full batch and a shorter last one *)
C2_Witness ==
    /\ pc = "done"
    /\ batch_size = 2
    /\ Len(data) = 3
    /\ Len(yielded) = 2
    /\ Len(yielded[2]) = 1

(* C3: with batch_size < 1 the run never completes successfully and makes   *)
(* no collection.add call.                                                  *)
C3_InvalidBatchSizeFails ==
    batch_size < 1 => (pc # "done" /\ calls = <<>>)

(* C4: with batch_size = 0 the collection is not opened before the error.   *)
C4_ErrorBeforeOpen ==
    batch_size = 0 => opened = 0

(* C5: a collection.add call that raised is the last call of the run, the   *)
(* run has failed, and the collection holds exactly the rows of the batches *)
(* before it.                                                               *)
C5_HaltOnWriteFailure ==
    \A j \in 1 .. Len(calls) :
        ~calls[j].ok =>
            /\ j = Len(calls)
            /\ pc = "failed"
            /\ \A i \in 1 .. (j - 1) : calls[i].ok
            /\ Len(collection) = (j - 1) * batch_size
            /\ \A i \in 1 .. Len(collection) :
                  /\ collection[i].id = data[i]["id"]
                  /\ collection[i].document = data[i]["title_fa"]

(* The write of batch 2 of 3 failed: batch 1 is stored, batch 3 is still    *)
(* to come.                                                                 *)
C5_Witness ==
    /\ pc = "failed"
    /\ err.at = "add"
    /\ Len(calls) = 2
    /\ ~calls[2].ok
    /\ Len(collection) = 1
    /\ collection[1].id = data[1]["id"]
    /\ Len(it) = 1

(* C6: the exception of a failed collection.add reaches the caller naming   *)
(* the index of the batch that failed.                                      *)
C6_ErrorNamesBatch ==
    (pc = "failed" /\ err.at = "add") =>
        \/ err.batches = {Len(calls)}
        \/ err.batches = {Len(calls) - 1}

(* C7: with id, title_fa or Category1 absent from the header, clean never   *)
(* returns normally and no collection.add call is made.                     *)
C7_MissingFieldAborts ==
    RequiredMissing => (~Cleaned /\ calls = <<>>)

(* C8: with batch_size >= 1 the progress counter is 0 until the loop, in    *)
(* the loop it is the number of collection.add calls that returned and at   *)
(* most total = ceil(n/b); a completed run ends with counter = total, and   *)
(* with total = 0 and no call for an empty frame.                           *)
C8_ProgressCounter ==
    batch_size >= 1 =>
        /\ pbar = Cardinality(OkCalls)
        /\ InLoop =>
              /\ IsCeil(total, Len(data), batch_size)
              /\ pbar <= total
        /\ pc = "done" =>
              /\ pbar = total
              /\ Len(data) = 0 => (total = 0 /\ calls = <<>>)

(* A completed run over three rows in batches of two counted to 2 of 2 *)
C8_Witness ==
    /\ pc = "done"
    /\ batch_size = 2
    /\ Len(data) = 3
    /\ pbar = 2
    /\ total = 2

(* C9: the ids, documents and metadatas of each collection.add call have    *)
(* the length of the batch, and position i of each comes from row i of the  *)
(* batch: its id, its title_fa, its Category1 and sub_category.             *)
C9_ParallelArrays ==
    \A j \in 1 .. Len(calls) :
        LET a     == calls[j].args
            batch == yielded[j]
        IN  /\ Len(a.ids) = Len(batch)
            /\ Len(a.documents) = Len(batch)
            /\ Len(a.metadatas) = Len(batch)
            /\ \A i \in 1 .. Len(batch) :
                  /\ a.ids[i] = batch[i]["id"]
                  /\ a.documents[i] = batch[i]["title_fa"]
                  /\ DOMAIN a.metadatas[i] = {"Category1", "sub_category"}
                  /\ a.metadatas[i]["Category1"] = batch[i]["Category1"]
                  /\ a.metadatas[i]["sub_category"] = batch[i]["sub_category"]

(* A call with two rows that differ in id, title and category *)
C9_Witness ==
    /\ Len(calls) >= 1
    /\ Len(yielded[1]) = 2
    /\ calls[1].args.ids[1] # calls[1].args.ids[2]
    /\ calls[1].args.documents[1] # calls[1].args.documents[2]
    /\ calls[1].args.metadatas[1] # calls[1].args.metadatas[2]

(* C10: the collection is opened at most once and before any write; in a    *)
(* run with batch_size >= 1 where no write failed, call j carries the ids   *)
(* of rows [(j-1)*b, min(j*b, n)) of data, and a completed run has opened   *)
(* the collection once and made ceil(n/b) calls whose ids, concatenated,    *)
(* are the pairwise distinct ids of data in order.                          *)
C10_FullRun ==
    /\ opened <= 1
    /\ calls # <<>> => opened = 1
    /\ (batch_size >= 1 /\ OkCalls = 1 .. Len(calls)) =>
          LET n   == Len(data)
              b   == batch_size
              ids == Flatten([j \in 1 .. Len(calls) |-> calls[j].args.ids])
          IN  /\ \A j \in 1 .. Len(calls) :
                    calls[j].args.ids =
                        [i \in 1 .. (Min(j * b, n) - (j - 1) * b) |->
                            data[(j - 1) * b + i]["id"]]
              /\ pc = "done" =>
                    /\ opened = 1
                    /\ IsCeil(Len(calls), n, b)
                    /\ ids = [i \in 1 .. n |-> data[i]["id"]]
                    /\ \A p, q \in 1 .. Len(ids) : p # q => ids[p] # ids[q]

(* A completed run that wrote three distinct ids in two calls *)
C10_Witness ==
    /\ pc = "done"
    /\ opened = 1
    /\ Len(df) = 3
    /\ Len(data) = 3
    /\ batch_size = 2
    /\ Len(calls) = 2
    /\ calls[1].ok /\ calls[2].ok
====
